---- MODULE Spec2Model ----
(***************************************************************************)
(* A model of two parts of librsync:                                       *)
(*   - the sliding window over a file descriptor, mapptr.c                 *)
(*     (_hs_map_file, _hs_map_ptr);                                        *)
(*   - the signature loader job, readsums.c (rs_loadsig_begin and the      *)
(*     rs_loadsig_s_* state functions).                                    *)
(* SpecMap is the window driven by arbitrary _hs_map_ptr calls over a      *)
(* descriptor; SpecSig is the loader job driven over a signature stream    *)
(* that arrives in chunks.                                                 *)
(***************************************************************************)
EXTENDS Integers, Sequences, FiniteSets, TLC

VARIABLES
    map,    \* struct hs_map, with the bytes the buffer P holds
    fd,     \* the descriptor: the file's length and the true read cursor
    ret,    \* what the last _hs_map_ptr call did and returned
    hist,   \* the calls so far: last offset, end of data delivered, ...
    job,    \* rs_job_t of the signature loader, with its signature
    wire,   \* the signature the producer is sending, and its bytes
    sent,   \* how the stream has been handed over and the job driven
    sigref  \* the caller's *signature, set by rs_loadsig_begin

vars == <<map, fd, ret, hist, job, wire, sent, sigref>>

mapVars == <<map, fd, ret, hist>>
sigVars == <<job, wire, sent, sigref>>

Min(a, b) == IF a <= b THEN a ELSE b
Max(a, b) == IF a >= b THEN a ELSE b

(***************************************************************************)
(*                              mapptr.c                                   *)
(***************************************************************************)

CHUNK_SIZE == 32 * 1024
MAX_MAP_SIZE == 256 * 1024
HS_MAP_TAG == 189900

\* ---- bounds of the window model: the requests and descriptors tried ----
Step == 100000          \* requests are made at multiples of Step
MaxOffsetSteps == 2     \* offsets 0, Step, .., MaxOffsetSteps * Step
BigLenSteps == 3        \* the long request is BigLenSteps * Step bytes
ShortFile == 250000     \* a file that ends inside the first window
LongFile == 400000      \* a file that ends in a later window
MaxFailAt == 1          \* a read error may hit read number 0 .. MaxFailAt
MaxReadErrors == 1      \* reads that fail in one run

FileLens == {0, ShortFile, LongFile}
Offsets(f) == {k * Step : k \in 0 .. MaxOffsetSteps} \cup {f.len}
Lens == {-1, 0, 1, BigLenSteps * Step}
\* one read(2) delivers at most this much, so that a fill takes several
ReadChunk == 2 * Step
FailAts == -1 .. MaxFailAt      \* -1: no read fails

(* The buffer P holds bytes of the file.  A byte is named by the file      *)
(* position it was read from, so P is a set of runs [b, n, s]:             *)
(* P[b + i] holds file byte s + i for i < n.  Bytes of P in no run are     *)
(* uninitialised.  Only the first P_LEN bytes of P are valid file data     *)
(* (lines 60-68); what a fill leaves behind them is kept as uninitialised. *)
SegClip(x, lo, hi) ==
    LET nb == Max(x.b, lo)
        ne == Min(x.b + x.n, hi)
    IN  IF ne > nb THEN {[b |-> nb, n |-> ne - nb, s |-> x.s + (nb - x.b)]}
        ELSE {}

MemClip(mem, lo, hi) == UNION {SegClip(x, lo, hi) : x \in mem}

MemShift(mem, d) == {[b |-> x.b + d, n |-> x.n, s |-> x.s] : x \in mem}

RECURSIVE MemCoalesce(_)
MemCoalesce(mem) ==
    IF \E x, y \in mem : x # y /\ y.b = x.b + x.n /\ y.s = x.s + x.n
    THEN LET pr == CHOOSE q \in mem \X mem :
                      /\ q[1] # q[2]
                      /\ q[2].b = q[1].b + q[1].n
                      /\ q[2].s = q[1].s + q[1].n
         IN  MemCoalesce((mem \ {pr[1], pr[2]}) \cup
                 {[b |-> pr[1].b, n |-> pr[1].n + pr[2].n, s |-> pr[1].s]})
    ELSE mem

\* memmove(p + dst, p + src, n) on a buffer of size bytes
memmove(mem, size, dst, src, n) ==
    IF n <= 0 THEN mem
    ELSE MemCoalesce(MemClip(mem, 0, dst) \cup MemClip(mem, dst + n, size)
                     \cup MemShift(MemClip(mem, src, src + n), dst - src))

\* n bytes read from file position pos are stored at p + at
MemStore(mem, size, at, n, pos) ==
    IF n <= 0 THEN mem
    ELSE MemCoalesce(MemClip(mem, 0, at) \cup MemClip(mem, at + n, size)
                     \cup {[b |-> at, n |-> n, s |-> pos]})

\* the n bytes at p + idx are the file's bytes pos .. pos + n - 1
ViewMatches(mem, idx, n, pos) ==
    \/ n <= 0
    \/ \E x \in mem : /\ x.b <= idx
                      /\ idx + n <= x.b + x.n
                      /\ x.s + (idx - x.b) = pos

NullPtr == [null_base |-> TRUE, idx |-> 0]
IsNull(ptr) == ptr.null_base /\ ptr.idx = 0

\* map->p + k
PtrAt(m, k) == [null_base |-> m.p_null, idx |-> k]

_hs_map_file(fdesc) ==
    [tag |-> HS_MAP_TAG, fd |-> fdesc, p_null |-> TRUE, mem |-> {},
     p_size |-> 0, p_offset |-> 0, p_fd_offset |-> 0, p_len |-> 0]

\* FastPath with < for <=: a request that ends where the region ends
\* misses it
FastPath_OffByOne(m, offset, len) ==
    /\ offset >= m.p_offset
    /\ offset + len < m.p_offset + m.p_len

\* lines 134-135: the region asked for is already in the buffer
FastPath(m, offset, len) ==
    /\ offset >= m.p_offset
    /\ offset + len <= m.p_offset + m.p_len

\* lines 142-147; w & ~(CHUNK_SIZE-1) rounds a non-negative w down
WindowStart(offset) ==
    IF offset > 2 * CHUNK_SIZE
    THEN LET w == offset - 2 * CHUNK_SIZE IN w - (w % CHUNK_SIZE)
    ELSE 0

\* WindowSize that never grows the window to cover the request
WindowSize_Fixed(offset, len, window_start) == MAX_MAP_SIZE

\* lines 148-152
WindowSize(offset, len, window_start) ==
    IF offset + len > window_start + MAX_MAP_SIZE
    THEN (offset + len) - window_start
    ELSE MAX_MAP_SIZE

\* Realloc that fits the buffer to every window, smaller ones too
Realloc_Exact(m, window_size) ==
    [m EXCEPT !.p_null = FALSE, !.p_size = window_size]

\* lines 155-162, the allocation having succeeded: realloc keeps the bytes
Realloc(m, window_size) ==
    IF window_size > m.p_size
    THEN [m EXCEPT !.p_null = FALSE, !.p_size = window_size]
    ELSE m

\* OverlapReuse that never finds bytes to keep: every fill reads the whole
\* window
OverlapReuse_Never(m, window_start, window_size) == FALSE

\* lines 166-168: the new window starts inside the old region and reaches
\* its end
OverlapReuse(m, window_start, window_size) ==
    /\ window_start >= m.p_offset
    /\ window_start < m.p_offset + m.p_len
    /\ window_start + window_size >= m.p_offset + m.p_len

\* ReadPlan that keeps the old bytes where they are instead of moving them
\* to the front of the buffer
ReadPlan_NoMove(m, window_start, window_size) ==
    IF OverlapReuse(m, window_start, window_size)
    THEN LET read_start  == m.p_offset + m.p_len
             read_offset == read_start - window_start
         IN  [read_start  |-> read_start,
              read_offset |-> read_offset,
              read_size   |-> window_size - read_offset,
              reuse       |-> TRUE,
              mem         |-> m.mem]
    ELSE [read_start  |-> window_start,
          read_offset |-> 0,
          read_size   |-> window_size,
          reuse       |-> FALSE,
          mem         |-> m.mem]

\* ReadPlan that keeps the old bytes but reads the window from its start
ReadPlan_Restart(m, window_start, window_size) ==
    [read_start  |-> window_start,
     read_offset |-> 0,
     read_size   |-> window_size,
     reuse       |-> OverlapReuse(m, window_start, window_size),
     mem         |-> m.mem]

\* lines 166-177: where to read from, where to put it, how much; mem is
\* the buffer after the memmove of the bytes that are kept
ReadPlan(m, window_start, window_size) ==
    IF OverlapReuse(m, window_start, window_size)
    THEN LET read_start  == m.p_offset + m.p_len
             read_offset == read_start - window_start
         IN  [read_start  |-> read_start,
              read_offset |-> read_offset,
              read_size   |-> window_size - read_offset,
              reuse       |-> TRUE,
              mem |-> memmove(m.mem, m.p_size, 0,
                              m.p_len - read_offset, read_offset)]
    ELSE [read_start  |-> window_start,
          read_offset |-> 0,
          read_size   |-> window_size,
          reuse       |-> FALSE,
          mem         |-> m.mem]

\* lseek(fd, pos, SEEK_SET): the new position, or -1 when the descriptor
\* cannot seek
lseek(f, pos, fails) ==
    IF fails THEN [result |-> -1, fd |-> f]
    ELSE [result |-> pos, fd |-> [f EXCEPT !.pos = pos]]

\* read(fd, buf, count): at most chunk bytes from the cursor, 0 at the end
\* of the file, -1 when the read fails (the cursor then stays)
read(f, count, chunk, fails) ==
    IF fails THEN [nread |-> -1, fd |-> f]
    ELSE LET n == Min(Min(count, chunk), Max(0, f.len - f.pos))
         IN  [nread |-> n, fd |-> [f EXCEPT !.pos = f.pos + n]]

\* lines 193-220: the do-while loop, from its ncall-th read on
RECURSIVE ReadLoop(_, _, _, _, _, _, _, _)
ReadLoop(f, mem, size, at, read_size, total_read, env, ncall) ==
    LET r == read(f, read_size - total_read, env.chunk, ncall = env.failAt)
    IN  IF r.nread < 0
        THEN [total_read |-> total_read, reached_eof |-> FALSE,
              error |-> TRUE, nreads |-> ncall + 1, fd |-> r.fd, mem |-> mem]
        ELSE IF r.nread = 0
        THEN [total_read |-> total_read, reached_eof |-> TRUE,
              error |-> FALSE, nreads |-> ncall + 1, fd |-> r.fd, mem |-> mem]
        ELSE LET m2 == MemStore(mem, size, at + total_read, r.nread, f.pos)
                 t2 == total_read + r.nread
             IN  IF t2 < read_size
                 THEN ReadLoop(r.fd, m2, size, at, read_size, t2, env, ncall + 1)
                 ELSE [total_read |-> t2, reached_eof |-> FALSE,
                       error |-> FALSE, nreads |-> ncall + 1, fd |-> r.fd,
                       mem |-> m2]

\* CapLen that hands back the length asked for whatever is available
CapLen_NoCap(m, offset, len) == len

\* lines 243-245: the length handed back
CapLen(m, offset, len) ==
    LET avail == m.p_len - (offset - m.p_offset)
    IN  IF avail < len THEN avail ELSE len

\* what a call hands back, and what it did on the way
Outcome(m, f, ptr, len, path) ==
    [map |-> m, fd |-> f, ptr |-> ptr, len |-> len, path |-> path,
     reached_eof |-> FALSE, errno |-> "", read_error |-> FALSE,
     rd_start |-> 0, rd_total |-> 0, nreads |-> 0, nseek |-> 0,
     reuse |-> FALSE, realloced |-> FALSE]

\* lines 185-247: seek if the cursor is elsewhere, fill, update the window
Fill(m, f, offset, len, window_start, window_size, plan, env) ==
    LET need_seek == m.p_fd_offset # plan.read_start
        sk == lseek(f, plan.read_start, env.noseek)
    IN  IF need_seek /\ sk.result # plan.read_start
        THEN [Outcome([m EXCEPT !.mem = plan.mem], sk.fd, NullPtr, len, "abort")
                 EXCEPT !.errno = "ESPIPE", !.nseek = 1, !.reuse = plan.reuse]
        ELSE
        LET f1 == IF need_seek THEN sk.fd ELSE f
            m1 == [m EXCEPT !.mem = plan.mem,
                            !.p_fd_offset = plan.read_start]
            rl == ReadLoop(f1, m1.mem, m1.p_size, plan.read_offset,
                           plan.read_size, 0, env, 0)
            p_len == plan.read_offset + rl.total_read
            m2 == [m1 EXCEPT !.mem = MemClip(rl.mem, 0, p_len),
                             !.p_fd_offset = m1.p_fd_offset + rl.total_read,
                             !.p_offset = window_start,
                             !.p_len = p_len]
            assert_ok == rl.total_read = plan.read_size
                            => m2.p_len = window_size
        IN  [Outcome(m2, rl.fd,
                     IF assert_ok THEN PtrAt(m2, offset - m2.p_offset)
                     ELSE NullPtr,
                     IF assert_ok THEN CapLen(m2, offset, len) ELSE len,
                     IF assert_ok THEN "fill" ELSE "abort")
                EXCEPT !.reached_eof = rl.reached_eof,
                       !.errno = IF rl.error THEN "EIO" ELSE "",
                       !.read_error = rl.error,
                       !.rd_start = plan.read_start,
                       !.rd_total = rl.total_read,
                       !.nreads = rl.nreads,
                       !.nseek = IF need_seek THEN 1 ELSE 0,
                       !.reuse = plan.reuse]

\* lines 116-248.  env is what the system does to this call: how much one
\* read delivers, which read fails, whether realloc runs out of memory.
_hs_map_ptr(m, f, offset, len, env) ==
    IF len = 0
    THEN [Outcome(m, f, NullPtr, len, "einval") EXCEPT !.errno = "EINVAL"]
    ELSE IF FastPath(m, offset, len)
    THEN Outcome(m, f, PtrAt(m, offset - m.p_offset), len, "fast")
    ELSE
    LET window_start == WindowStart(offset)
        window_size  == WindowSize(offset, len, window_start)
        grow == window_size > m.p_size
    IN  IF grow /\ env.oom
        THEN [Outcome([m EXCEPT !.p_null = TRUE, !.mem = {}], f, NullPtr, len,
                      "abort") EXCEPT !.errno = "ENOMEM"]
        ELSE
        LET m1   == Realloc(m, window_size)
            plan == ReadPlan(m1, window_start, window_size)
        IN  IF plan.read_size <= 0
            THEN [Outcome([m1 EXCEPT !.mem = plan.mem], f, NullPtr, len,
                          "badsize")
                     EXCEPT !.reuse = plan.reuse, !.realloced = grow]
            ELSE [Fill(m1, f, offset, len, window_start, window_size, plan,
                       env)
                     EXCEPT !.realloced = grow]

\* the fields of the last call kept for the properties
NoCall ==
    [called |-> FALSE, offset |-> 0, len_in |-> 0, ptr |-> NullPtr,
     len |-> 0, reached_eof |-> FALSE, errno |-> "", path |-> "none",
     read_error |-> FALSE, io |-> FALSE, seeked |-> FALSE, reuse |-> FALSE,
     changed |-> FALSE]

\* the call returned to its caller (it did not end in abort())
Returned(r) == r.called /\ r.path # "abort"

\* the region [a, b) a returned call handed to its caller
RegionOf(r) ==
    IF Returned(r) /\ ~IsNull(r.ptr) /\ r.len > 0
    THEN [a |-> r.offset, b |-> r.offset + r.len]
    ELSE [a |-> r.offset, b |-> r.offset]

\* a call that asks for more than the file has left, and meets no error
EofCapped(r, f) ==
    /\ Returned(r) /\ ~r.read_error
    /\ r.len_in > 0
    /\ r.offset <= f.len
    /\ r.offset + r.len_in > f.len

\* the request [offset, offset + len) shares bytes with the region [a, b)
\* the call before returned, and starts at or after a
Overlaps(before, offset, len) ==
    LET reg == RegionOf(before)
    IN  /\ offset >= reg.a
        /\ Max(reg.a, offset) < Min(reg.b, offset + len)

\* a call for [offset, offset + len), at or after the start of a region
\* reg = [a, b) returned earlier, read from the descriptor one of the bytes
\* they share: it read the file's bytes rd_start .. rd_start + rd_total - 1
Reread(reg, offset, len, rd_start, rd_total) ==
    /\ offset >= reg.a
    /\ Max(Max(reg.a, offset), rd_start)
         < Min(Min(reg.b, offset + len), rd_start + rd_total)

\* what the system may do to a call that has to fill the buffer: reads of
\* at most chunk bytes, read number failAt failing, realloc or lseek failing
NoFault == [chunk |-> ReadChunk, failAt |-> -1, oom |-> FALSE,
            noseek |-> FALSE]
Envs(errors) ==
    {[NoFault EXCEPT !.failAt = k] :
        k \in IF errors < MaxReadErrors THEN FailAts ELSE {-1}}
    \cup {[NoFault EXCEPT !.oom = TRUE], [NoFault EXCEPT !.noseek = TRUE]}

(* What the properties need of the calls made so far:                      *)
(*   nondecr        no call was made at an offset before the one before it *)
(*   delivered_end  while nondecr: the largest end b of a region [a, b)    *)
(*                  returned so far                                        *)
(*   all_pos        every call had len > 0                                 *)
(*   forward        all_pos, nondecr, and no call was made at an offset    *)
(*                  past delivered_end                                     *)
(*   overlaps       the last request shares bytes with the region returned *)
(*                  by the call before it                                  *)
(*   reread         ... and the last call read one of them from the        *)
(*                  descriptor                                             *)
(*   reread_any     the last call read from the descriptor a byte of its   *)
(*                  request that lies before delivered_end                 *)
(*   prev_capped    the call before the last was cut short at the end of   *)
(*                  the file                                               *)
(*   errors         reads that failed                                      *)
NoHist ==
    [delivered_end |-> 0, forward |-> TRUE, nondecr |-> TRUE,
     all_pos |-> TRUE, overlaps |-> FALSE, reread |-> FALSE,
     reread_any |-> FALSE, prev_capped |-> FALSE, errors |-> 0]

NoJob == [statefn |-> "unset"]

InitMap ==
    /\ fd \in [len : FileLens, pos : {0}]
    /\ map = _hs_map_file(3)
    /\ ret = NoCall
    /\ hist = NoHist
    /\ job = NoJob /\ wire = NoJob /\ sent = NoJob /\ sigref = "unset"

\* one call of _hs_map_ptr(map, offset, &len, &reached_eof).  abort() ends
\* the process: the map is gone and nothing more is called.
MapPtr ==
    /\ ret.path # "abort"
    /\ \E offset \in Offsets(fd), len \in Lens :
       \E env \in IF len # 0 /\ ~FastPath(map, offset, len)
                  THEN Envs(hist.errors) ELSE {NoFault} :
       \E r \in {_hs_map_ptr(map, fd, offset, len, env)} :
         LET now == [called |-> TRUE, offset |-> offset, len_in |-> len,
                     ptr |-> r.ptr, len |-> r.len,
                     reached_eof |-> r.reached_eof,
                     errno |-> r.errno,
                     path |-> r.path, read_error |-> r.read_error,
                     io |-> r.nreads > 0 \/ r.nseek > 0,
                     seeked |-> r.nseek > 0,
                     reuse |-> r.reuse,
                     changed |-> r.map # map \/ r.fd # fd]
             nondecr == hist.nondecr /\ offset >= ret.offset
             forward == /\ hist.forward
                        /\ len > 0
                        /\ nondecr
                        /\ offset <= hist.delivered_end
         IN  IF r.path = "abort"
             THEN /\ map' = [_hs_map_file(map.fd) EXCEPT !.tag = 0]
                  /\ fd' = [fd EXCEPT !.pos = 0]
                  /\ ret' = [NoCall EXCEPT !.called = TRUE,
                                           !.path = "abort",
                                           !.errno = r.errno,
                                           !.seeked = r.nseek > 0]
                  /\ hist' = [NoHist EXCEPT !.forward = forward,
                                            !.nondecr = FALSE]
             ELSE
             /\ map' = r.map
             /\ fd' = r.fd
             /\ ret' = now
             /\ hist' = [delivered_end |->
                             IF nondecr
                             THEN Max(hist.delivered_end, RegionOf(now).b)
                             ELSE 0,
                         forward |-> forward,
                         nondecr |-> nondecr,
                         all_pos |-> hist.all_pos /\ len > 0,
                         overlaps |-> Overlaps(ret, offset, len),
                         reread |-> Reread(RegionOf(ret), offset, len,
                                           r.rd_start, r.rd_total),
                         reread_any |->
                             Reread([a |-> 0, b |-> hist.delivered_end],
                                    offset, len, r.rd_start, r.rd_total),
                         prev_capped |-> EofCapped(ret, fd),
                         errors |-> hist.errors
                                      + IF r.read_error THEN 1 ELSE 0]
    /\ UNCHANGED sigVars

NextMap == MapPtr

SpecMap == InitMap /\ [][NextMap]_vars

(***************************************************************************)
(*                              readsums.c                                 *)
(* The state functions are in readsums.c.  What they call is not: the      *)
(* scoop (rs_scoop_read, rs_suck_n4), the signature table                  *)
(* (rs_signature_init, rs_signature_add_block), rs_job_new and the loop    *)
(* that drives a job are modelled from the specification (sections 3, 4.2, *)
(* 6 and 7).                                                               *)
(***************************************************************************)

RS_MAX_STRONG_SUM_LENGTH == 32

\* ---- bounds of the loader model ----
MaxRecords == 2     \* records in a signature
FeedChunk == 5      \* the producer hands over 1, FeedChunk or all bytes

\* A 4-byte big-endian field holding the 32-bit pattern of the int v
N4(v) ==
    <<(v \div 16777216) % 256, (v \div 65536) % 256, (v \div 256) % 256,
      v % 256>>

\* u <= v for two 4-byte big-endian unsigned fields
ULeq(u, v) ==
    \/ u = v
    \/ \E i \in 1 .. 4 : /\ u[i] < v[i]
                         /\ \A j \in 1 .. (i - 1) : u[j] = v[j]

\* the int a 4-byte big-endian field is read into: the pattern of a field
\* of 2^31 or more is a negative int
rs_parse_netint(b) ==
    (IF b[1] >= 128 THEN b[1] - 256 ELSE b[1]) * 16777216
        + b[2] * 65536 + b[3] * 256 + b[4]

\* the strong sum of record i: n bytes
StrongOf(i, n) == [j \in 1 .. n |-> (16 * i + j) % 256]

\* the weak sums of the records tried; the second has its top bit set
WeakOf(i) == IF i % 2 = 1 THEN N4(i) ELSE <<128, 0, 0, i>>

\* a signature as it is on the wire: three header fields, then records with
\* strong sums of n bytes
Table(block_len, strong_sum_len, n, nrec) ==
    [magic |-> <<114, 115, 1, 54>>,
     block_len |-> block_len,
     strong_sum_len |-> strong_sum_len,
     recs |-> [i \in 1 .. nrec |->
                  [weak |-> WeakOf(i), strong |-> StrongOf(i, n)]]]

GoodBlockLens == {N4(1), <<127, 255, 255, 255>>}
BadBlockLens == {N4(0), <<128, 0, 0, 0>>, <<255, 255, 255, 255>>}
GoodStrongLens == {0, 2, RS_MAX_STRONG_SUM_LENGTH}
BadStrongLens ==
    {N4(RS_MAX_STRONG_SUM_LENGTH + 1), <<128, 0, 0, 0>>,
     <<255, 255, 255, 255>>}

Tables ==
    {Table(b, N4(n), n, k) :
        b \in GoodBlockLens, n \in GoodStrongLens, k \in 0 .. MaxRecords}
    \cup {Table(b, N4(2), 2, 1) : b \in BadBlockLens}
    \cup {Table(N4(1), l, 2, 1) : l \in BadStrongLens}

RECURSIVE EncodeRecs(_)
EncodeRecs(recs) ==
    IF recs = <<>> THEN <<>>
    ELSE recs[1].weak \o recs[1].strong \o EncodeRecs(Tail(recs))

\* section 6: [magic:4][block_length:4][strong_sum_length:4], then the
\* records [weak:4][strong]
Encode(t) ==
    t.magic \o t.block_len \o t.strong_sum_len \o EncodeRecs(t.recs)

\* the header fields are valid (section 6)
WellFormed(t) ==
    /\ ULeq(N4(1), t.block_len) /\ ULeq(t.block_len, <<127, 255, 255, 255>>)
    /\ ULeq(t.strong_sum_len, N4(RS_MAX_STRONG_SUM_LENGTH))

\* rs_alloc_struct(rs_signature_t): a zeroed signature
NoSignature ==
    [inits |-> 0, magic |-> 0, block_len |-> 0, strong_sum_len |-> 0,
     size |-> 0, blocks |-> <<>>]

\* rs_job_new("loadsig", statefn), then job->signature (line 147).  scoop is
\* the input handed to the job and not yet consumed, eof_in that the
\* producer has said there is no more; consumed counts the bytes taken.
rs_job_new(statefn, sig_file_bytes) ==
    [statefn |-> statefn, magic |-> 0, block_len |-> 0,
     strong_sum_len |-> 0, weak_sig |-> 0,
     stats |-> [sig_blocks |-> 0, block_len |-> 0],
     sig_file_bytes |-> sig_file_bytes,
     signature |-> NoSignature,
     scoop |-> <<>>, eof_in |-> FALSE, consumed |-> 0,
     final_result |-> "RS_RUNNING"]

\* section 4.2, the scoop: exactly n bytes; or blocked while more input may
\* come; or, the input having ended, a clean end when nothing is pending and
\* a truncation (section 7) when some bytes are.  The length is a size_t, so
\* a negative n is a length no input reaches.
rs_scoop_read(j, n) ==
    IF n >= 0 /\ Len(j.scoop) >= n
    THEN [result |-> "RS_DONE",
          data |-> SubSeq(j.scoop, 1, n),
          job |-> [j EXCEPT !.scoop = SubSeq(j.scoop, n + 1, Len(j.scoop)),
                            !.consumed = j.consumed + n]]
    ELSE [result |-> IF ~j.eof_in THEN "RS_BLOCKED"
                     ELSE IF j.scoop = <<>> THEN "RS_INPUT_ENDED"
                     ELSE "TRUNCATED",
          data |-> <<>>, job |-> j]

\* section 4.2, the 4-byte helper: the field, read into an int
rs_suck_n4(j) ==
    LET r == rs_scoop_read(j, 4)
    IN  [result |-> r.result,
         l |-> IF r.result = "RS_DONE" THEN rs_parse_netint(r.data) ELSE 0,
         job |-> r.job]

\* section 3: the table is created once, with its header fields and a
\* capacity hint
rs_signature_init(sig, magic, block_len, strong_sum_len, hint) ==
    [result |-> "RS_DONE",
     sig |-> [sig EXCEPT !.inits = sig.inits + 1, !.magic = magic,
                         !.block_len = block_len,
                         !.strong_sum_len = strong_sum_len,
                         !.size = hint]]

\* section 3: one append per decoded block
rs_signature_add_block(sig, weak_sig, strong_sum) ==
    [sig EXCEPT !.blocks = Append(sig.blocks,
                               [weak |-> weak_sig, strong |-> strong_sum])]

\* what a state function hands back: its result and the job as it leaves it
StateRet(result, j) == [result |-> result, job |-> j]

\* rs_loadsig_s_weak without the early return of lines 55-56 when blocked
rs_loadsig_s_weak_NoEarlyReturn(j) ==
    LET r == rs_suck_n4(j)
    IN  IF r.result = "RS_INPUT_ENDED"
        THEN StateRet("RS_DONE", r.job)
        ELSE IF r.result = "TRUNCATED"
        THEN StateRet(r.result, r.job)
        ELSE StateRet("RS_RUNNING",
                      [r.job EXCEPT !.weak_sig = r.l, !.statefn = "strong"])

\* rs_loadsig_s_weak taking every end of input for the end of the signature
rs_loadsig_s_weak_AnyEnd(j) ==
    LET r == rs_suck_n4(j)
    IN  IF r.result # "RS_DONE"
        THEN IF r.result # "RS_BLOCKED"
             THEN StateRet("RS_DONE", r.job)
             ELSE StateRet(r.result, r.job)
        ELSE StateRet("RS_RUNNING",
                      [r.job EXCEPT !.weak_sig = r.l, !.statefn = "strong"])

\* rs_loadsig_s_weak asking for more input when the input has ended in
\* the middle of a weak sum
rs_loadsig_s_weak_BlockOnEnd(j) ==
    LET r == rs_suck_n4(j)
    IN  IF r.result # "RS_DONE"
        THEN IF r.result = "RS_INPUT_ENDED"
             THEN StateRet("RS_DONE", r.job)
             ELSE StateRet("RS_BLOCKED", r.job)
        ELSE StateRet("RS_RUNNING",
                      [r.job EXCEPT !.weak_sig = r.l, !.statefn = "strong"])

\* lines 48-61
rs_loadsig_s_weak(j) ==
    LET r == rs_suck_n4(j)
    IN  IF r.result # "RS_DONE"
        THEN IF r.result = "RS_INPUT_ENDED"
             THEN StateRet("RS_DONE", r.job)
             ELSE StateRet(r.result, r.job)
        ELSE StateRet("RS_RUNNING",
                      [r.job EXCEPT !.weak_sig = r.l, !.statefn = "strong"])

\* rs_loadsig_s_strong without the rs_signature_add_block of line 78
rs_loadsig_s_strong_NoAdd(j) ==
    LET r == rs_scoop_read(j, j.signature.strong_sum_len)
    IN  IF r.result # "RS_DONE"
        THEN StateRet(r.result, r.job)
        ELSE StateRet("RS_RUNNING",
                 [r.job EXCEPT
                     !.stats.sig_blocks = j.stats.sig_blocks + 1,
                     !.statefn = "weak"])

\* rs_loadsig_s_strong counting the block before it has its strong sum
rs_loadsig_s_strong_CountFirst(j) ==
    LET j0 == [j EXCEPT !.stats.sig_blocks = j.stats.sig_blocks + 1]
        r == rs_scoop_read(j0, j.signature.strong_sum_len)
    IN  IF r.result # "RS_DONE"
        THEN StateRet(r.result, r.job)
        ELSE StateRet("RS_RUNNING",
                 [r.job EXCEPT
                     !.signature = rs_signature_add_block(
                                       r.job.signature, j.weak_sig, r.data),
                     !.statefn = "weak"])

\* lines 65-81; the trace of lines 72-76 changes nothing
rs_loadsig_s_strong(j) ==
    LET r == rs_scoop_read(j, j.signature.strong_sum_len)
    IN  IF r.result # "RS_DONE"
        THEN StateRet(r.result, r.job)
        ELSE StateRet("RS_RUNNING",
                 [r.job EXCEPT
                     !.signature = rs_signature_add_block(
                                       r.job.signature, j.weak_sig, r.data),
                     !.stats.sig_blocks = j.stats.sig_blocks + 1,
                     !.statefn = "weak"])

\* the quotient of line 100, which C rounds towards zero
CDiv(a, b) == IF a >= 0 THEN a \div b ELSE -((-a) \div b)

\* rs_loadsig_s_stronglen without the l < 0 of line 92
rs_loadsig_s_stronglen_NoSignCheck(j) ==
    LET r == rs_suck_n4(j)
    IN  IF r.result # "RS_DONE"
        THEN StateRet(r.result, r.job)
        ELSE IF r.l > RS_MAX_STRONG_SUM_LENGTH
        THEN StateRet("RS_CORRUPT", r.job)
        ELSE
        LET j1 == [r.job EXCEPT !.strong_sum_len = r.l]
            i  == rs_signature_init(j1.signature, j1.magic, j1.block_len,
                                    j1.strong_sum_len, 0)
            j2 == [j1 EXCEPT !.signature = i.sig]
        IN  StateRet("RS_RUNNING", [j2 EXCEPT !.statefn = "weak"])

\* lines 85-106
rs_loadsig_s_stronglen(j) ==
    LET r == rs_suck_n4(j)
    IN  IF r.result # "RS_DONE"
        THEN StateRet(r.result, r.job)
        ELSE IF r.l < 0 \/ r.l > RS_MAX_STRONG_SUM_LENGTH
        THEN StateRet("RS_CORRUPT", r.job)
        ELSE
        LET j1 == [r.job EXCEPT !.strong_sum_len = r.l]
            l  == IF j1.sig_file_bytes # 0
                  THEN CDiv(j1.sig_file_bytes - 12, 4 + j1.strong_sum_len)
                  ELSE 0
            i  == rs_signature_init(j1.signature, j1.magic, j1.block_len,
                                    j1.strong_sum_len, l)
            j2 == [j1 EXCEPT !.signature = i.sig]
        IN  IF i.result # "RS_DONE"
            THEN StateRet(i.result, j2)
            ELSE StateRet("RS_RUNNING", [j2 EXCEPT !.statefn = "weak"])

\* rs_loadsig_s_blocklen storing the length before it is checked
rs_loadsig_s_blocklen_StoreFirst(j) ==
    LET r == rs_suck_n4(j)
    IN  IF r.result # "RS_DONE"
        THEN StateRet(r.result, r.job)
        ELSE IF r.l < 1
        THEN StateRet("RS_CORRUPT", [r.job EXCEPT !.block_len = r.l])
        ELSE StateRet("RS_RUNNING",
                 [r.job EXCEPT !.block_len = r.l,
                               !.stats.block_len = r.l,
                               !.statefn = "stronglen"])

\* rs_loadsig_s_blocklen without the assignment to stats of line 122
rs_loadsig_s_blocklen_NoStats(j) ==
    LET r == rs_suck_n4(j)
    IN  IF r.result # "RS_DONE"
        THEN StateRet(r.result, r.job)
        ELSE IF r.l < 1
        THEN StateRet("RS_CORRUPT", r.job)
        ELSE StateRet("RS_RUNNING",
                 [r.job EXCEPT !.block_len = r.l,
                               !.statefn = "stronglen"])

\* lines 109-125
rs_loadsig_s_blocklen(j) ==
    LET r == rs_suck_n4(j)
    IN  IF r.result # "RS_DONE"
        THEN StateRet(r.result, r.job)
        ELSE IF r.l < 1
        THEN StateRet("RS_CORRUPT", r.job)
        ELSE StateRet("RS_RUNNING",
                 [r.job EXCEPT !.block_len = r.l,
                               !.stats.block_len = r.l,
                               !.statefn = "stronglen"])

\* rs_loadsig_s_magic without the assignment to statefn of line 137
rs_loadsig_s_magic_Stay(j) ==
    LET r == rs_suck_n4(j)
    IN  IF r.result # "RS_DONE"
        THEN StateRet(r.result, r.job)
        ELSE StateRet("RS_RUNNING", [r.job EXCEPT !.magic = r.l])

\* lines 128-139
rs_loadsig_s_magic(j) ==
    LET r == rs_suck_n4(j)
    IN  IF r.result # "RS_DONE"
        THEN StateRet(r.result, r.job)
        ELSE StateRet("RS_RUNNING",
                 [r.job EXCEPT !.magic = r.l, !.statefn = "blocklen"])

\* lines 142-149: the job, and the signature the caller is handed, which is
\* the job's own
rs_loadsig_begin(sig_file_bytes) ==
    [job |-> rs_job_new("magic", sig_file_bytes),
     signature |-> "job->signature"]

\* job->statefn(job)
Statefn(j) ==
    CASE j.statefn = "magic"     -> rs_loadsig_s_magic(j)
      [] j.statefn = "blocklen"  -> rs_loadsig_s_blocklen(j)
      [] j.statefn = "stronglen" -> rs_loadsig_s_stronglen(j)
      [] j.statefn = "weak"      -> rs_loadsig_s_weak(j)
      [] j.statefn = "strong"    -> rs_loadsig_s_strong(j)

\* section 4.2, "drive one step": the current state function runs once; a
\* result other than running or blocked ends the job
rs_job_iter(j) ==
    LET r == Statefn(j)
    IN  [result |-> r.result,
         job |-> IF r.result \in {"RS_RUNNING", "RS_BLOCKED"} THEN r.job
                 ELSE [r.job EXCEPT !.final_result = r.result]]

Finished(j) == j.final_result # "RS_RUNNING"

\* the job driven with all of bytes at hand and the end of input signalled
RECURSIVE RunToEnd(_)
RunToEnd(j) ==
    LET r == rs_job_iter(j)
    IN  IF r.result = "RS_RUNNING" THEN RunToEnd(r.job) ELSE r.job

AllAtOnce(bytes, sig_file_bytes) ==
    RunToEnd([rs_loadsig_begin(sig_file_bytes).job
                 EXCEPT !.scoop = bytes, !.eof_in = TRUE])

\* what a run leaves: the result, the header fields and the table
Loaded(j) ==
    [result |-> j.final_result, magic |-> j.magic,
     block_len |-> j.block_len, strong_sum_len |-> j.strong_sum_len,
     signature |-> j.signature, stats |-> j.stats]

NoMap == [tag |-> 0]

InitSig ==
    /\ \E t \in Tables :
          /\ wire = [table |-> t, bytes |-> Encode(t)]
          /\ \E n \in {0, Len(Encode(t))} :
                /\ job = rs_loadsig_begin(n).job
                /\ sigref = rs_loadsig_begin(n).signature
    /\ sent = [n |-> 0, bytewise |-> TRUE, last |-> "none",
               last_eof |-> FALSE, blocked |-> 0, running |-> 0]
    /\ map = NoMap /\ fd = NoMap /\ ret = NoCall /\ hist = NoHist

\* the producer hands the job the next n bytes of the stream
Feed ==
    /\ ~job.eof_in
    /\ \E n \in {1, FeedChunk, Len(wire.bytes) - sent.n} :
          /\ n >= 1
          /\ sent.n + n <= Len(wire.bytes)
          /\ job' = [job EXCEPT
                        !.scoop = @ \o SubSeq(wire.bytes, sent.n + 1,
                                              sent.n + n)]
          /\ sent' = [sent EXCEPT !.n = @ + n,
                                  !.bytewise = @ /\ n = 1]
    /\ UNCHANGED <<wire, sigref>>
    /\ UNCHANGED mapVars

\* the producer says there is no more input: the stream ends after the
\* sent.n bytes handed over
EndInput ==
    /\ ~job.eof_in
    /\ job' = [job EXCEPT !.eof_in = TRUE]
    /\ UNCHANGED <<wire, sent, sigref>>
    /\ UNCHANGED mapVars

\* the job is driven one step
Drive ==
    /\ ~Finished(job)
    /\ \E r \in {rs_job_iter(job)} :
          /\ job' = r.job
          /\ sent' = [sent EXCEPT
                         !.last = r.result,
                         !.last_eof = job.eof_in,
                         !.blocked = IF r.result = "RS_BLOCKED"
                                     THEN Min(@ + 1, 1) ELSE @,
                         !.running = IF r.result = "RS_RUNNING"
                                     THEN @ + 1 ELSE @]
    /\ UNCHANGED <<wire, sigref>>
    /\ UNCHANGED mapVars

NextSig == Feed \/ EndInput \/ Drive

SpecSig == InitSig /\ [][NextSig]_vars

\* the runs followed to their end: the signatures with strong sums of at
\* most 2 bytes, and no size given for the signature file
InitSigLive ==
    /\ InitSig
    /\ Len(wire.bytes) <= 12 + MaxRecords * (4 + 2)
    /\ job.sig_file_bytes = 0

\* the caller goes on driving the job for as long as a drive does anything
SpecSigLive == InitSigLive /\ [][NextSig]_vars /\ WF_vars(Drive)

(***************************************************************************)
(*                     Properties of the window                            *)
(***************************************************************************)

\* C1: in a forward-only sequence of calls with len > 0 (no offset before
\* the one before it, none past the end of the data delivered so far), every
\* call that returns hands back a view into the buffer whose len bytes are
\* the file's bytes offset .. offset + len - 1.
C1_WindowCorrectness ==
    (Returned(ret) /\ hist.forward) =>
        /\ ~ret.ptr.null_base
        /\ ret.ptr.idx >= 0
        /\ ret.len >= 0
        /\ ViewMatches(map.mem, ret.ptr.idx, ret.len, ret.offset)

\* a forward-only call served by moving kept bytes to the front of a buffer
\* that has been grown after its first allocation
C1_Witness ==
    /\ Returned(ret) /\ hist.forward
    /\ ret.path = "fill" /\ ret.reuse
    /\ map.p_offset > 0
    /\ map.p_size > Max(MAX_MAP_SIZE, BigLenSteps * Step)
    /\ ret.len > 0

\* C7: a call with offset <= L and offset + N > L that meets no read error
\* returns L - offset bytes with reached_eof set; a call at L that follows
\* it returns 0 bytes with reached_eof set again.
C7_EofCapping ==
    /\ EofCapped(ret, fd) =>
          /\ ~IsNull(ret.ptr)
          /\ ret.len = fd.len - ret.offset
          /\ ret.reached_eof
    /\ (hist.prev_capped /\ EofCapped(ret, fd) /\ ret.offset = fd.len) =>
          /\ ret.len = 0
          /\ ret.reached_eof

\* a call that was cut short at the end of a file, then a call at the end
C7_Witness ==
    /\ hist.prev_capped /\ EofCapped(ret, fd)
    /\ ret.offset = fd.len
    /\ fd.len > 0
    /\ hist.forward /\ hist.delivered_end = fd.len
    /\ ret.len = 0 /\ ret.reached_eof

\* C8 as claimed: a call (with len > 0, like all calls before it) at or after
\* the start a of the region [a, b) the call before it returned reads from
\* the descriptor no byte that its request shares with [a, b).
C8_NoRereadAsClaimed == hist.all_pos => ~hist.reread

\* C8 amended: ... provided no call so far was made at an offset before the
\* offset of the call before it; and then the call reads from the descriptor
\* no byte of its request that any earlier call returned.
C8_NoRereadForward == hist.nondecr => (~hist.reread /\ ~hist.reread_any)

\* a request that shares bytes with the region returned before it, served by
\* a fill that keeps them and reads only what follows
C8_Witness ==
    /\ hist.nondecr /\ hist.overlaps
    /\ Returned(ret) /\ ret.path = "fill" /\ ret.reuse /\ ret.io
    /\ ret.len > 0

\* C9: every call with len <= 0 fails with (NULL, EINVAL), performs no I/O
\* and leaves the window as it was.
C9_InvalidArgument ==
    (Returned(ret) /\ ret.len_in <= 0) =>
        /\ IsNull(ret.ptr)
        /\ ret.errno = "EINVAL"
        /\ ~ret.io
        /\ ~ret.changed

\* C10: a call (len > 0) whose fill meets a read error returns no view, and
\* does not report end of input.
C10_ReadErrorFails ==
    (Returned(ret) /\ ret.len_in > 0 /\ ret.read_error) =>
        /\ IsNull(ret.ptr)
        /\ ~ret.reached_eof

(***************************************************************************)
(*                 Properties of the signature loader                      *)
(***************************************************************************)

\* the bytes handed to the job so far
Delivered == SubSeq(wire.bytes, 1, sent.n)

\* the whole of a well-formed stream has been handed over
WholeStream == WellFormed(wire.table) /\ sent.n = Len(wire.bytes)

\* C2 (resumability): however the stream was cut into pieces, and however
\* often the job was driven and blocked between them, a job that has ended
\* has the result, the magic, block length and strong-sum length, and the
\* table with the same records in the same order, that the job has which is
\* given the same bytes all at once.  Checked for every stream tried, the
\* well-formed ones of the claim among them.
C2_Resumability ==
    Finished(job) =>
        Loaded(job) = Loaded(AllAtOnce(Delivered, job.sig_file_bytes))

C2_Witness ==
    /\ Finished(job) /\ job.final_result = "RS_DONE"
    /\ WholeStream
    /\ Len(wire.table.recs) = MaxRecords
    /\ wire.table.strong_sum_len = N4(RS_MAX_STRONG_SUM_LENGTH)
    /\ sent.bytewise /\ sent.blocked > 0

\* C3 (decode correctness): when the whole of a well-formed stream
\* [magic][block_length][strong_sum_length] then k records has been handed
\* over and the job has ended, its result is RS_DONE and the table holds
\* that magic, block length and strong-sum length and exactly the k records
\* of the stream, in the order of the stream.
C3_DecodeCorrectness ==
    (Finished(job) /\ WholeStream) =>
        LET t == wire.table
            sig == job.signature
        IN  /\ job.final_result = "RS_DONE"
            /\ sig.inits = 1
            /\ N4(sig.magic) = t.magic
            /\ N4(sig.block_len) = t.block_len
            /\ N4(sig.strong_sum_len) = t.strong_sum_len
            /\ Len(sig.blocks) = Len(t.recs)
            /\ \A i \in 1 .. Len(t.recs) :
                  /\ N4(sig.blocks[i].weak) = t.recs[i].weak
                  /\ sig.blocks[i].strong = t.recs[i].strong

C3_Witness ==
    /\ Finished(job) /\ WholeStream
    /\ Len(job.signature.blocks) = MaxRecords
    /\ wire.table.block_len = <<127, 255, 255, 255>>
    /\ wire.table.strong_sum_len = N4(2)
    /\ job.sig_file_bytes # 0
    /\ ~sent.bytewise

C5_CorruptionRejection ==
    LET bl == rs_parse_netint(wire.table.block_len)
        sl == rs_parse_netint(wire.table.strong_sum_len)
    IN  /\ (job.consumed >= 8 /\ bl < 1) =>
              /\ job.final_result = "RS_CORRUPT"
              /\ job.consumed = 8
              /\ job.statefn = "blocklen"
              /\ job.block_len = 0 /\ job.stats.block_len = 0
              /\ job.signature = NoSignature
        /\ (job.consumed >= 12 /\ (sl < 0 \/ sl > RS_MAX_STRONG_SUM_LENGTH)) =>
              /\ job.final_result = "RS_CORRUPT"
              /\ job.consumed = 12
              /\ job.statefn = "stronglen"
              /\ job.strong_sum_len = 0
              /\ job.signature = NoSignature
        /\ job.final_result = "RS_CORRUPT" =>
              \/ job.statefn = "blocklen" /\ bl < 1
              \/ /\ job.statefn = "stronglen"
                 /\ (sl < 0 \/ sl > RS_MAX_STRONG_SUM_LENGTH)

C5_Witness ==
    /\ job.final_result = "RS_CORRUPT"
    /\ job.statefn = "blocklen"
    /\ wire.table.block_len = <<255, 255, 255, 255>>
    /\ job.consumed = 8
    /\ Len(job.scoop) > 0

\* the block-length field has been read and the job has gone on
AcceptedBlockLen == job.statefn \notin {"magic", "blocklen"}

\* the strong-sum-length field has been read and the job has gone on
AcceptedStrongLen == job.statefn \notin {"magic", "blocklen", "stronglen"}

\* C6 as claimed: the block-length state goes on exactly when the unsigned
\* value v of the field is at least 1, and the strong-sum-length state
\* exactly when 0 <= v <= RS_MAX_STRONG_SUM_LENGTH.
C6_AcceptanceAsClaimed ==
    /\ job.consumed >= 8 =>
          (AcceptedBlockLen <=> ULeq(N4(1), wire.table.block_len))
    /\ job.consumed >= 12 =>
          (AcceptedStrongLen <=>
              ULeq(wire.table.strong_sum_len, N4(RS_MAX_STRONG_SUM_LENGTH)))

\* C6 (header acceptance), amended: the block-length state goes on exactly
\* when the unsigned value v of the field has 1 <= v <= 2^31 - 1, a field of
\* 2^31 or more being a negative int and rejected; the strong-sum-length
\* state goes on exactly when 0 <= v <= RS_MAX_STRONG_SUM_LENGTH.
C6_HeaderAcceptance ==
    /\ job.consumed >= 8 =>
          (AcceptedBlockLen <=>
              /\ ULeq(N4(1), wire.table.block_len)
              /\ ULeq(wire.table.block_len, <<127, 255, 255, 255>>))
    /\ job.consumed >= 12 =>
          (AcceptedStrongLen <=>
              ULeq(wire.table.strong_sum_len, N4(RS_MAX_STRONG_SUM_LENGTH)))

C6_Witness ==
    /\ job.consumed = 12
    /\ wire.table.block_len = <<127, 255, 255, 255>>
    /\ wire.table.strong_sum_len = N4(RS_MAX_STRONG_SUM_LENGTH)
    /\ AcceptedBlockLen /\ AcceptedStrongLen
    /\ job.signature.inits = 1

\* the job has ended with a result other than RS_DONE
Failed(j) == Finished(j) /\ j.final_result # "RS_DONE"

\* C11 (no partial table after a fatal result): when the job has ended with
\* a failure, the signature the caller was handed by rs_loadsig_begin has no
\* header field set and no record appended.
C11_NoPartialTable ==
    (Failed(job) /\ sigref = "job->signature") =>
        job.signature = NoSignature

\* the fields of the job a state function works on
JobFields(j) ==
    [statefn |-> j.statefn, magic |-> j.magic, block_len |-> j.block_len,
     strong_sum_len |-> j.strong_sum_len, weak_sig |-> j.weak_sig,
     stats |-> j.stats, signature |-> j.signature]

\* C12 (blocked is free of side effects): in every state the job reaches,
\* if its current state function returns RS_BLOCKED then it leaves the
\* state function, magic, block_len, strong_sum_len, weak_sig, stats and the
\* signature table as they were, and has consumed no input.
C12_BlockedFrame ==
    ~Finished(job) =>
        LET r == Statefn(job)
        IN  r.result = "RS_BLOCKED" =>
                /\ JobFields(r.job) = JobFields(job)
                /\ r.job.consumed = job.consumed

C12_Witness ==
    /\ sent.last = "RS_BLOCKED"
    /\ ~Finished(job)
    /\ Statefn(job).result = "RS_BLOCKED"
    /\ job.statefn = "strong"
    /\ Len(job.scoop) > 0
    /\ Len(job.signature.blocks) >= 1

(***************************************************************************)
(*                 More properties of the window buffer                    *)
(***************************************************************************)

\* C13 (no seek on sequential access): from a fresh map on a descriptor at
\* position 0, as long as every call has had len > 0, none has gone back
\* before the one before it, and none has started past the end of the data
\* handed out so far, the read_start a call computes is p_fd_offset and the
\* call does not call lseek.
C13_NoSeekSequential ==
    (ret.called /\ hist.forward) => ~ret.seeked

C13_Witness ==
    /\ ret.called /\ hist.forward
    /\ ret.path = "fill" /\ ret.io /\ ~ret.seeked
    /\ ret.reuse
    /\ map.p_offset > 0
    /\ map.p_fd_offset = fd.len

\* requests with len > 0 put to a window state m: the offsets and lengths
\* of the calls, and those at the edges of the region in the buffer
Requests(m, f) ==
    {q \in [offset : Offsets(f) \cup {m.p_offset, m.p_offset + 1,
                                      m.p_offset + m.p_len - 1,
                                      m.p_offset + m.p_len},
            len : Lens \cup {2, m.p_len - 1, m.p_len, m.p_len + 1,
                             MAX_MAP_SIZE}] :
        q.offset >= 0 /\ q.len > 0}

\* all that the system may do to a call
AllEnvs == Envs(0)

\* C14 (fast path): in every window state reached, a request with
\* offset >= p_offset and offset + len <= p_offset + p_len gets the view at
\* buffer index offset - p_offset with its len unchanged; the call reads,
\* seeks, reallocates and moves nothing, and the map (p, p_size, p_len,
\* p_offset, p_fd_offset and the bytes of the buffer) and the descriptor are
\* as before.  The calls made through the fast path did the same.
C14_FastPathFrame ==
    /\ \A q \in Requests(map, fd), env \in AllEnvs :
          (/\ q.offset >= map.p_offset
           /\ q.offset + q.len <= map.p_offset + map.p_len) =>
              LET r == _hs_map_ptr(map, fd, q.offset, q.len, env)
              IN  /\ r.ptr = PtrAt(map, q.offset - map.p_offset)
                  /\ r.len = q.len
                  /\ r.nreads = 0 /\ r.nseek = 0
                  /\ ~r.realloced /\ ~r.reuse
                  /\ r.map = map /\ r.fd = fd
    /\ ret.path = "fast" =>
          /\ ret.len = ret.len_in
          /\ ret.ptr = PtrAt(map, ret.offset - map.p_offset)
          /\ ~ret.io /\ ~ret.changed

C14_Witness ==
    /\ ret.path = "fast" /\ ret.len_in = 1
    /\ ret.ptr.idx > 0 /\ ~ret.ptr.null_base
    /\ map.p_offset > 0
    /\ ret.offset + ret.len <= map.p_offset + map.p_len
    /\ \E q \in Requests(map, fd) :
          /\ q.offset + q.len = map.p_offset + map.p_len
          /\ q.offset > map.p_offset
          /\ _hs_map_ptr(map, fd, q.offset, q.len, NoFault).path = "fast"

\* a call that returns leaves the buffer at least as large as it was
SizeStep == ret'.path # "abort" => map'.p_size >= map.p_size

\* C16 (window bookkeeping): after _hs_map_file and any calls of
\* _hs_map_ptr, those that met the end of the file or a failed read among
\* them, p_len <= p_size and p_fd_offset is the position of the descriptor;
\* and no call makes p_size smaller.
C16_Bookkeeping ==
    /\ [](/\ map.p_len <= map.p_size
          /\ map.p_len >= 0
          /\ map.p_fd_offset = fd.pos)
    /\ [][SizeStep]_vars

C16_Witness ==
    /\ Returned(ret) /\ ret.read_error
    /\ map.p_len > 0 /\ map.p_len < map.p_size
    /\ map.p_size > MAX_MAP_SIZE
    /\ map.p_fd_offset = fd.pos /\ fd.pos > 0 /\ fd.pos < fd.len

\* lines 142-177 for a request that misses the fast path: the window and
\* what is to be read
PlanFor(m, offset, len) ==
    LET window_start == WindowStart(offset)
        window_size  == WindowSize(offset, len, window_start)
    IN  ReadPlan(Realloc(m, window_size), window_start, window_size)

C20_ViewInBounds ==
    (Returned(ret) /\ ret.len_in > 0 /\ ~IsNull(ret.ptr)) =>
        /\ 0 <= ret.len /\ ret.len <= ret.len_in
        /\ ret.ptr.idx = ret.offset - map.p_offset
        /\ 0 <= ret.ptr.idx
        /\ ret.ptr.idx + ret.len <= map.p_len

(***************************************************************************)
(*               More properties of the signature loader                   *)
(***************************************************************************)

\* the state each state function hands over to (lines 137, 123, 104, 59, 79)
Successor(st) ==
    CASE st = "magic"     -> "blocklen"
      [] st = "blocklen"  -> "stronglen"
      [] st = "stronglen" -> "weak"
      [] st = "weak"      -> "strong"
      [] st = "strong"    -> "weak"

\* this step drives the job: no input is handed over, no end signalled
DriveStep ==
    /\ sent'.n = sent.n
    /\ job'.eof_in = job.eof_in
    /\ <<job, sent>>' # <<job, sent>>

StateStep ==
    /\ job'.statefn # job.statefn =>
          /\ DriveStep
          /\ sent'.last = "RS_RUNNING"
          /\ job'.statefn = Successor(job.statefn)
    /\ (DriveStep /\ sent'.last = "RS_RUNNING") =>
          job'.statefn # job.statefn

\* C15 (state ordering): the job starts in the magic state; a step changes
\* the current state only by driving a state function that returns
\* RS_RUNNING, and then to the successor magic -> blocklen -> stronglen ->
\* weak -> strong -> weak ...; and every drive that returns RS_RUNNING
\* changes the state.  So the states run magic, blocklen, stronglen, then
\* weak and strong in turn.
C15_StateOrdering ==
    job.statefn = "magic" /\ [][StateStep]_vars

C15_Witness ==
    /\ job.statefn = "strong"
    /\ sent.last = "RS_RUNNING"
    /\ Len(job.signature.blocks) >= 1
    /\ job.consumed > 12

\* the fields the job has read: those of the header, and a weak and a
\* strong sum for each record
FieldsConsumed(j) ==
    CASE j.statefn = "magic"     -> 0
      [] j.statefn = "blocklen"  -> 1
      [] j.statefn = "stronglen" -> 2
      [] j.statefn = "weak"      -> 3 + 2 * Len(j.signature.blocks)
      [] j.statefn = "strong"    -> 4 + 2 * Len(j.signature.blocks)

C18_StatsConsistency ==
    /\ job.stats.sig_blocks = Len(job.signature.blocks)
    /\ AcceptedBlockLen =>
          /\ job.stats.block_len = job.block_len
          /\ job.block_len >= 1
    /\ job.signature.inits > 0 =>
          /\ job.signature.inits = 1
          /\ job.signature.block_len = job.block_len
    /\ ~AcceptedBlockLen => job.stats.block_len = 0

C18_Witness ==
    /\ job.stats.sig_blocks = MaxRecords
    /\ Len(job.signature.blocks) = MaxRecords
    /\ job.stats.block_len = 2147483647
    /\ job.signature.block_len = 2147483647
    /\ job.final_result = "RS_DONE"

====
